---- MODULE Spec2Model ----
(***************************************************************************)
(* Model of the valuation-report service: the request handlers of          *)
(* src/main.py (get_property, generate_report, generate_csv_report) and    *)
(* of src/app.py (get_property, the same code as main.py's).               *)
(*                                                                         *)
(* A request is one sequential flow.  pc is the handler's position, the    *)
(* upstream replies are chosen when the fetch is issued, and every         *)
(* handler step between two fetches is one action.                         *)
(*                                                                         *)
(* JSON / Python values are pairs <<tag, payload>>, the payload a sequence *)
(* of integers (characters are their ASCII codes):                         *)
(*   <<"null", <<>>>>  None          <<"bool", <<1>>>>  True               *)
(*   <<"int", <<n>>>>  the int n     <<"str", <<c1, .., ck>>>>  a string   *)
(*   <<"list", <<i1, .., ik>>>>  a list of ints                            *)
(*   <<"frac", <<n, d>>>>  the float n/d (d > 0, lowest terms)             *)
(*   <<"absent", <<>>>>  the key is not in the dict                        *)
(*   <<"hdr", <<slot, col>>>>  the header text of a CSV column             *)
(* A dict is a record whose fields are such values.                        *)
(***************************************************************************)
EXTENDS Integers, Sequences, FiniteSets, TLC

VARIABLES
    endpoint,                 \* the handler serving the request
    pc,                       \* its position
    initial_id,               \* path parameter of get_property / generate_report
    user_email, report_id,    \* query parameters of generate_csv_report
    fetches,                  \* the upstream GETs issued so far, in order
    source_property,          \* main.py:42
    comparisons_data,         \* main.py:54
    result,                   \* main.py:78, what get_property returns
    user_reports,             \* main.py:121
    property_ids,             \* main.py:133
    all_comparisons,          \* main.py:141
    selected_comparisons_list,\* main.py:147
    comparisons_by_initial_address, \* main.py:153, an insertion-ordered dict
    source_properties,        \* main.py:163
    rows,                     \* the rows written to the csv writer, header first
    response                  \* what the request ends in

vars == <<endpoint, pc, initial_id, user_email, report_id, fetches,
          source_property, comparisons_data, result, user_reports,
          property_ids, all_comparisons, selected_comparisons_list,
          comparisons_by_initial_address, source_properties, rows, response>>

-----------------------------------------------------------------------------
(* Bounds of the model *)

\* longest list of comparison records the upstream returns to get_property
MaxComparisons == 2

\* longest list of comparison records the upstream returns to
\* generate_csv_report
MaxCsvComparisons == 2

\* longest property_ids list of a user report
MaxPropertyIds == 3

\* longest list of user reports the upstream returns
MaxReports == 2

\* longest list of source properties the upstream returns
MaxProperties == 2

-----------------------------------------------------------------------------
(* Python values *)

JNull == <<"null", <<>>>>
Absent == <<"absent", <<>>>>
JBool(b) == <<"bool", <<IF b THEN 1 ELSE 0>>>>
JInt(n) == <<"int", <<n>>>>
JStr(cs) == <<"str", cs>>
JList(xs) == <<"list", xs>>

Tag(v) == v[1]
Payload(v) == v[2]

\* d.get(key): None when the key is missing
Get(d, key) == IF d[key] = Absent THEN JNull ELSE d[key]

\* d.get(key, default)
GetDefault(d, key, default) == IF d[key] = Absent THEN default ELSE d[key]

\* d[key] raises KeyError when the key is missing
HasKey(d, key) == d[key] # Absent

\* bool(v)
Truthy(v) ==
    CASE Tag(v) = "null" -> FALSE
      [] Tag(v) = "bool" -> Payload(v)[1] = 1
      [] Tag(v) = "int" -> Payload(v)[1] # 0
      [] Tag(v) = "frac" -> Payload(v)[1] # 0
      [] OTHER -> Payload(v) # <<>>

\* a == b; bool is a subclass of int, so True == 1
PyEq(a, b) ==
    IF Tag(a) \in {"bool", "int"} /\ Tag(b) \in {"bool", "int"}
    THEN Payload(a) = Payload(b)
    ELSE a = b

IsSpace(c) == c = 32
IsDigit(c) == c \in 48..57
IsSign(c) == c \in {43, 45}

RECURSIVE LStrip(_)
LStrip(cs) == IF cs # <<>> /\ IsSpace(Head(cs)) THEN LStrip(Tail(cs)) ELSE cs

RECURSIVE RStrip(_)
RStrip(cs) ==
    IF cs # <<>> /\ IsSpace(cs[Len(cs)])
    THEN RStrip(SubSeq(cs, 1, Len(cs) - 1))
    ELSE cs

RECURSIVE DigitsValue(_, _)
DigitsValue(cs, acc) ==
    IF cs = <<>> THEN acc ELSE DigitsValue(Tail(cs), 10 * acc + (Head(cs) - 48))

\* int(v): [exc |-> "" and the value, or the exception raised]
PyInt(v) ==
    CASE Tag(v) \in {"int", "bool"} -> [exc |-> "", val |-> Payload(v)[1]]
      [] Tag(v) = "str" ->
            LET s == RStrip(LStrip(Payload(v)))
                neg == s # <<>> /\ Head(s) = 45
                ds == IF s # <<>> /\ IsSign(Head(s)) THEN Tail(s) ELSE s
            IN  IF ds = <<>> \/ \E i \in 1..Len(ds) : ~IsDigit(ds[i])
                THEN [exc |-> "ValueError", val |-> 0]
                ELSE [exc |-> "",
                      val |-> IF neg THEN 0 - DigitsValue(ds, 0)
                              ELSE DigitsValue(ds, 0)]
      [] OTHER -> [exc |-> "TypeError", val |-> 0]

-----------------------------------------------------------------------------
(* Responses *)

NoResponse == [kind |-> "none", status |-> 0, detail |-> ""]

\* raise HTTPException(status_code=status, detail=detail)
HTTPException(status, detail) ==
    [kind |-> "HTTPException", status |-> status, detail |-> detail]

\* an exception no handler code catches leaves the handler
Unhandled(exc) == [kind |-> "unhandled", status |-> 500, detail |-> exc]

Returned(kind) == [kind |-> kind, status |-> 200, detail |-> ""]

\* statuses for which raise_for_status() raises HTTPError
ErrorStatuses == {404, 500}

Fetch(coll, outcome) == [coll |-> coll, outcome |-> outcome]

\* a failed fetch that is swallowed: the handler goes on to its next step
ContinueAfterFailedFetch(next_pc) == next_pc

\* a failed fetch raises out of the handler: the request ends there
AfterFailedFetch(next_pc) == "error"

-----------------------------------------------------------------------------
(* Records of the upstream collections *)

\* "A" and "B"
AddrA == JStr(<<65>>)
AddrB == JStr(<<66>>)
EmptyStr == JStr(<<>>)

\* a valuations_property_comparisons record
Comparison(id, iid, sel, iaddr, addr, date, sold) ==
    [id |-> id, initial_id |-> iid, Selected |-> sel, initial_address |-> iaddr,
     address |-> addr, sales_date |-> date, sold_amount |-> sold,
     bedrooms |-> JInt(3), bath |-> Absent, floor_size_value |-> JNull,
     most_recent_url |-> JStr(<<117>>)]

\* a valuations_property record
SourceProperty(addr, beds) ==
    [address |-> addr, bedrooms |-> beds, bath |-> JInt(2),
     square_feet |-> JNull, appraisal_value |-> Absent]

NoProperty == SourceProperty(Absent, Absent)

\* the initial_id values the upstream may send: 1, 2, "1", " 2 ", "a", "",
\* null, or no initial_id at all
InitialIdValues ==
    {JInt(1), JInt(2), JStr(<<49>>), JStr(<<32, 50, 32>>), JStr(<<97>>),
     EmptyStr, JNull, Absent}

\* the Selected values the upstream may send: true, false, null, no Selected
\* at all, or the string "yes"
SelectedValues ==
    {JBool(TRUE), JBool(FALSE), JNull, Absent, JStr(<<121, 101, 115>>)}

\* a comparison list get_property may receive, of the shapes f[1], .., f[n]
\* in InitialIdValues \X SelectedValues: record i has id i
PropertyComparisonList(n, f) ==
    [i \in 1..n |-> Comparison(JInt(i), f[i][1], f[i][2], AddrA, AddrB, Absent, Absent)]

TargetIds == {1, 2}

-----------------------------------------------------------------------------
(* get_property: src/main.py:31-83, src/app.py:6-58 *)

\* the exceptions the try around int() catches and skips on
CoercionCaughtValueErrorOnly(exc) == exc = "ValueError"

CoercionCaught(exc) == exc \in {"ValueError", "TypeError"}

\* the test on Selected, by truthiness instead of == True
SelectedTruthy(selected) == Truthy(selected)

\* selected == True
SelectedIsTrue(selected) == PyEq(selected, JBool(TRUE))

\* the filter loop: [exc |-> "" and the list built, or the exception that
\* escaped the loop]
RECURSIVE FilterLoop(_, _, _)
FilterLoop(target, data, acc) ==
    IF data = <<>> THEN [exc |-> "", out |-> acc]
    ELSE LET comparison == Head(data)
             comparison_initial_id == Get(comparison, "initial_id")
             selected == Get(comparison, "Selected")
             coerced == PyInt(comparison_initial_id)
         IN  IF coerced.exc # ""
             THEN IF CoercionCaught(coerced.exc)
                  THEN FilterLoop(target, Tail(data), acc)
                  ELSE [exc |-> coerced.exc, out |-> acc]
             ELSE IF coerced.val = target /\ SelectedIsTrue(selected)
                  THEN FilterLoop(target, Tail(data), Append(acc, comparison))
                  ELSE FilterLoop(target, Tail(data), acc)

NoResult == [source_property |-> NoProperty, selected_comparisons |-> <<>>]

PropertyEndpoints == {"get_property", "generate_report"}

csvVars == <<user_email, report_id, user_reports, property_ids,
             all_comparisons, selected_comparisons_list,
             comparisons_by_initial_address, source_properties, rows>>

\* Step 1: GET valuations_property/{initial_id}
FetchSourceProperty ==
    /\ endpoint \in PropertyEndpoints
    /\ pc = "start"
    /\ \/ /\ fetches' = Append(fetches, Fetch("property", "ok"))
          /\ \E beds \in {JInt(4), Absent} :
                source_property' = SourceProperty(AddrA, beds)
          /\ pc' = "fetch_comparisons"
          /\ UNCHANGED response
       \/ /\ fetches' = Append(fetches, Fetch("property", "http_error"))
          /\ \E status \in ErrorStatuses :
                response' = HTTPException(status, "Source property not found.")
          /\ pc' = AfterFailedFetch("fetch_comparisons")
          /\ UNCHANGED source_property
       \/ /\ fetches' = Append(fetches, Fetch("property", "network_error"))
          /\ response' = HTTPException(500,
                "An error occurred while fetching the source property.")
          /\ pc' = AfterFailedFetch("fetch_comparisons")
          /\ UNCHANGED source_property
    /\ UNCHANGED <<endpoint, initial_id, comparisons_data, result, csvVars>>

\* Step 2: GET valuations_property_comparisons
FetchPropertyComparisons ==
    /\ endpoint \in PropertyEndpoints
    /\ pc = "fetch_comparisons"
    /\ \/ /\ fetches' = Append(fetches, Fetch("comparisons", "ok"))
          /\ \E n \in 0..MaxComparisons :
                \E f \in [1..n -> InitialIdValues \X SelectedValues] :
                    comparisons_data' = PropertyComparisonList(n, f)
          /\ pc' = "filter"
          /\ UNCHANGED response
       \/ /\ fetches' = Append(fetches, Fetch("comparisons", "http_error"))
          /\ \E status \in ErrorStatuses :
                response' = HTTPException(status,
                    "Failed to fetch property comparisons.")
          /\ pc' = AfterFailedFetch("filter")
          /\ UNCHANGED comparisons_data
       \/ /\ fetches' = Append(fetches, Fetch("comparisons", "network_error"))
          /\ response' = HTTPException(500,
                "An error occurred while fetching property comparisons.")
          /\ pc' = AfterFailedFetch("filter")
          /\ UNCHANGED comparisons_data
    /\ UNCHANGED <<endpoint, initial_id, source_property, result, csvVars>>

\* Steps 3 and 4: filter the comparisons and build the result; get_property
\* returns it, generate_report goes on to render it
FilterComparisons ==
    /\ endpoint \in PropertyEndpoints
    /\ pc = "filter"
    /\ LET loop == FilterLoop(initial_id, comparisons_data, <<>>)
       IN  IF loop.exc # ""
           THEN /\ response' = Unhandled(loop.exc)
                /\ pc' = "error"
                /\ UNCHANGED result
           ELSE /\ result' = [source_property |-> source_property,
                              selected_comparisons |-> loop.out]
                /\ IF endpoint = "get_property"
                   THEN response' = Returned("json") /\ pc' = "done"
                   ELSE UNCHANGED response /\ pc' = "render"
    /\ UNCHANGED <<endpoint, initial_id, fetches, source_property,
                   comparisons_data, csvVars>>

\* generate_report: render the template and print it to PDF
RenderReport ==
    /\ endpoint = "generate_report"
    /\ pc = "render"
    /\ response' = Returned("pdf")
    /\ pc' = "done"
    /\ UNCHANGED <<endpoint, initial_id, fetches, source_property,
                   comparisons_data, result, csvVars>>

InitProperty ==
    /\ endpoint \in PropertyEndpoints
    /\ pc = "start"
    /\ initial_id \in TargetIds
    /\ user_email = EmptyStr
    /\ report_id = 0
    /\ fetches = <<>>
    /\ source_property = NoProperty
    /\ comparisons_data = <<>>
    /\ result = NoResult
    /\ user_reports = <<>>
    /\ property_ids = Absent
    /\ all_comparisons = <<>>
    /\ selected_comparisons_list = <<>>
    /\ comparisons_by_initial_address = <<>>
    /\ source_properties = <<>>
    /\ rows = <<>>
    /\ response = NoResponse

NextProperty ==
    \/ FetchSourceProperty
    \/ FetchPropertyComparisons
    \/ FilterComparisons
    \/ RenderReport

SpecProperty == InitProperty /\ [][NextProperty]_vars

-----------------------------------------------------------------------------
(* generate_csv_report: src/main.py:112-256 *)

\* a ripos_valuations_user_reports record
UserReport(id, user_id, pids) == [id |-> id, user_id |-> user_id, property_ids |-> pids]

NoReport == UserReport(Absent, Absent, Absent)

RECURSIVE Gcd(_, _)
Gcd(a, b) == IF b = 0 THEN a ELSE Gcd(b, a % b)

\* the float n / d, d > 0
Frac(n, d) ==
    LET g == Gcd(IF n < 0 THEN 0 - n ELSE n, d)
    IN  <<"frac", <<n \div g, d \div g>>>>

\* the two decimal digits of n
TwoDigits(n) == <<48 + (n \div 10), 48 + (n % 10)>>

\* the civil date of a day count since 1970-01-01, as 'YYYY-MM-DD'
DateString(days) ==
    LET z == days + 719468
        era == z \div 146097
        doe == z - era * 146097
        yoe == (doe - doe \div 1460 + doe \div 36524 - doe \div 146096) \div 365
        doy == doe - (365 * yoe + yoe \div 4 - yoe \div 100)
        mp == (5 * doy + 2) \div 153
        d == doy - (153 * mp + 2) \div 5 + 1
        m == IF mp < 10 THEN mp + 3 ELSE mp - 9
        y == yoe + era * 400 + (IF m <= 2 THEN 1 ELSE 0)
    IN  JStr(TwoDigits(y \div 100) \o TwoDigits(y % 100) \o <<45>>
             \o TwoDigits(m) \o <<45>> \o TwoDigits(d))

\* format_sales_date(timestamp): epoch milliseconds to 'YYYY-MM-DD' (the
\* server's time zone taken to be UTC), '' for a falsy timestamp
format_sales_date(timestamp) ==
    IF Truthy(timestamp)
    THEN DateString(Payload(timestamp)[1] \div 86400000)
    ELSE EmptyStr

\* next((report for report in user_reports if report['id'] == report_id and
\* report['user_id'] == user_email), None)
RECURSIVE FindReport(_, _, _)
FindReport(reports, rid, email) ==
    IF reports = <<>> THEN [exc |-> "", found |-> FALSE, report |-> NoReport]
    ELSE LET report == Head(reports)
         IN  IF ~HasKey(report, "id")
             THEN [exc |-> "KeyError", found |-> FALSE, report |-> NoReport]
             ELSE IF ~PyEq(report.id, JInt(rid))
             THEN FindReport(Tail(reports), rid, email)
             ELSE IF ~HasKey(report, "user_id")
             THEN [exc |-> "KeyError", found |-> FALSE, report |-> NoReport]
             ELSE IF PyEq(report.user_id, email)
             THEN [exc |-> "", found |-> TRUE, report |-> report]
             ELSE FindReport(Tail(reports), rid, email)

\* comp_id in comparisons_by_id
InComparisonsById(all, comp_id) ==
    \E i \in 1..Len(all) : PyEq(all[i].id, JInt(comp_id))

\* comparisons_by_id[comp_id]: the dict comprehension keeps the last record
\* of an id
ComparisonById(all, comp_id) ==
    LET last == CHOOSE i \in 1..Len(all) :
                    /\ PyEq(all[i].id, JInt(comp_id))
                    /\ \A j \in (i + 1)..Len(all) : ~PyEq(all[j].id, JInt(comp_id))
    IN  all[last]

\* [comparisons_by_id[comp_id] for comp_id in property_ids
\*  if comp_id in comparisons_by_id]
RECURSIVE SelectByIds(_, _)
SelectByIds(pids, all) ==
    IF pids = <<>> THEN <<>>
    ELSE IF InComparisonsById(all, Head(pids))
         THEN <<ComparisonById(all, Head(pids))>> \o SelectByIds(Tail(pids), all)
         ELSE SelectByIds(Tail(pids), all)

\* a dict that puts a new key first
SetDefaultPrepend(groups, key, comp) ==
    IF \E i \in 1..Len(groups) : groups[i].key = key
    THEN [i \in 1..Len(groups) |->
             IF groups[i].key = key
             THEN [key |-> key, items |-> Append(groups[i].items, comp)]
             ELSE groups[i]]
    ELSE <<[key |-> key, items |-> <<comp>>]>> \o groups

\* d.setdefault(key, []).append(comp) on an insertion-ordered dict, kept as
\* a sequence of [key, items]
SetDefaultAppend(groups, key, comp) ==
    IF \E i \in 1..Len(groups) : groups[i].key = key
    THEN [i \in 1..Len(groups) |->
             IF groups[i].key = key
             THEN [key |-> key, items |-> Append(groups[i].items, comp)]
             ELSE groups[i]]
    ELSE Append(groups, [key |-> key, items |-> <<comp>>])

\* the grouping loop of lines 153-157
RECURSIVE GroupLoop(_, _)
GroupLoop(comps, groups) ==
    IF comps = <<>> THEN groups
    ELSE LET comp == Head(comps)
             initial_address == Get(comp, "initial_address")
         IN  IF Truthy(initial_address)
             THEN GroupLoop(Tail(comps), SetDefaultAppend(groups, initial_address, comp))
             ELSE GroupLoop(Tail(comps), groups)

\* source_properties_by_address.get(initial_address): the dict comprehension
\* keeps the last property of an address; None when there is none
HasSourceProperty(props, addr) == \E i \in 1..Len(props) : props[i].address = addr

SourcePropertyByAddress(props, addr) ==
    LET last == CHOOSE i \in 1..Len(props) :
                    /\ props[i].address = addr
                    /\ \A j \in (i + 1)..Len(props) : props[j].address # addr
    IN  props[last]

\* max(len(comparisons) for comparisons in groups.values()) if groups else 0
RECURSIVE MaxGroupLen(_)
MaxGroupLen(groups) ==
    IF groups = <<>> THEN 0
    ELSE LET rest == MaxGroupLen(Tail(groups))
             n == Len(Head(groups).items)
         IN  IF n > rest THEN n ELSE rest

\* header cell: column col of comparison slot slot (slot 0: the source columns)
HeaderCell(slot, col) == <<"hdr", <<slot, col>>>>

SourceHeaders == [col \in 1..6 |-> HeaderCell(0, col)]

RECURSIVE ComparisonHeaders(_, _)
ComparisonHeaders(i, max_comparisons) ==
    IF i > max_comparisons THEN <<>>
    ELSE [col \in 1..7 |-> HeaderCell(i, col)] \o ComparisonHeaders(i + 1, max_comparisons)

\* the denominator of the average, counting every record of the group
AverageCountAll(comps, sold_amounts) == Len(comps)

\* len(sold_amounts)
AverageCount(comps, sold_amounts) == Len(sold_amounts)

\* [comp['sold_amount'] for comp in selected_comparisons if comp.get('sold_amount')]
RECURSIVE SoldAmounts(_)
SoldAmounts(comps) ==
    IF comps = <<>> THEN <<>>
    ELSE IF Truthy(Get(Head(comps), "sold_amount"))
         THEN <<Payload(Head(comps).sold_amount)[1]>> \o SoldAmounts(Tail(comps))
         ELSE SoldAmounts(Tail(comps))

RECURSIVE Sum(_)
Sum(xs) == IF xs = <<>> THEN 0 ELSE Head(xs) + Sum(Tail(xs))

\* sum(sold_amounts) / len(sold_amounts) if sold_amounts else 0
AverageSoldAmount(comps) ==
    LET sold_amounts == SoldAmounts(comps)
    IN  IF sold_amounts # <<>>
        THEN Frac(Sum(sold_amounts), AverageCount(comps, sold_amounts))
        ELSE JInt(0)

\* the seven cells of one comparison
ComparisonBlock(comp) ==
    <<GetDefault(comp, "address", EmptyStr),
      format_sales_date(Get(comp, "sales_date")),
      GetDefault(comp, "bedrooms", EmptyStr),
      GetDefault(comp, "bath", EmptyStr),
      GetDefault(comp, "floor_size_value", EmptyStr),
      GetDefault(comp, "sold_amount", EmptyStr),
      GetDefault(comp, "most_recent_url", EmptyStr)>>

RECURSIVE ComparisonBlocks(_)
ComparisonBlocks(comps) ==
    IF comps = <<>> THEN <<>>
    ELSE ComparisonBlock(Head(comps)) \o ComparisonBlocks(Tail(comps))

\* the padding loop without the padding
PaddingNone(filled, max_comparisons) == <<>>

\* while comparisons_filled < max_comparisons: data_row.extend([''] * 7)
RECURSIVE Padding(_, _)
Padding(filled, max_comparisons) ==
    IF filled < max_comparisons
    THEN [col \in 1..7 |-> EmptyStr] \o Padding(filled + 1, max_comparisons)
    ELSE <<>>

\* the data row of one group
DataRow(initial_address, selected_comparisons, source, max_comparisons) ==
    <<AverageSoldAmount(selected_comparisons),
      initial_address,
      GetDefault(source, "bedrooms", EmptyStr),
      GetDefault(source, "bath", EmptyStr),
      GetDefault(source, "square_feet", EmptyStr),
      GetDefault(source, "appraisal_value", EmptyStr)>>
    \o ComparisonBlocks(selected_comparisons)
    \o Padding(Len(selected_comparisons), max_comparisons)

\* a group whose address no source property has is written all the same
SkipGroupNever(props, addr) == FALSE

\* if not source_property: continue
SkipGroup(props, addr) == ~HasSourceProperty(props, addr)

\* the loop of lines 199-240 over the groups, in the dict's order
RECURSIVE DataRows(_, _, _)
DataRows(groups, props, max_comparisons) ==
    IF groups = <<>> THEN <<>>
    ELSE LET g == Head(groups)
         IN  IF SkipGroup(props, g.key)
             THEN DataRows(Tail(groups), props, max_comparisons)
             ELSE <<DataRow(g.key, g.items,
                            IF HasSourceProperty(props, g.key)
                            THEN SourcePropertyByAddress(props, g.key)
                            ELSE NoProperty,
                            max_comparisons)>>
                  \o DataRows(Tail(groups), props, max_comparisons)

-----------------------------------------------------------------------------
(* The upstream replies generate_csv_report may receive *)

EmailA == JStr(<<97>>)
EmailB == JStr(<<98>>)

\* the comparison ids a user report may name
ReportedIds == {1, 2}

\* property_ids of a report: missing, null, or a list of ids
PropertyIdValues ==
    {Absent, JNull}
    \cup UNION { { JList(ids) : ids \in [1..n -> ReportedIds] } : n \in 0..MaxPropertyIds }

\* the reports of the requested id and user with every property_ids, and the
\* reports of every other shape (their property_ids is never read)
UserReportValues ==
    { UserReport(JInt(1), EmailA, pids) : pids \in PropertyIdValues }
    \cup { UserReport(id, user, JList(<<1>>)) :
             id \in {JInt(1), JInt(2), Absent}, user \in {EmailA, EmailB, Absent} }


InitialAddressValues == {AddrA, AddrB, EmptyStr, Absent}

SoldAmountValues == {JInt(100), JInt(200), JInt(0), Absent}

\* the sales_date of record i: a timestamp, none, or 0
SalesDateOf(i) == IF i = 1 THEN JInt(1000000000) ELSE IF i = 2 THEN Absent ELSE JInt(0)

\* the shapes of a comparison record: initial_address and sold_amount of
\* every kind, or a record without id
CsvComparisonShapes ==
    { <<TRUE, a, sold>> : a \in InitialAddressValues, sold \in SoldAmountValues }
    \cup { <<FALSE, AddrA, JInt(100)>> }

\* a comparison list of the shapes f[1], .., f[n]: record i has id i, or no
\* id, and the address "<i>"
CsvComparisonList(n, f) ==
    [i \in 1..n |->
        Comparison(IF f[i][1] THEN JInt(i) ELSE Absent, JInt(1), JBool(TRUE),
                   f[i][2], JStr(<<48 + i>>), SalesDateOf(i), f[i][3])]

\* the address of a source property: "A", "B" or none
SourceAddressValues == {AddrA, AddrB, Absent}

\* a list of source properties of the addresses f[1], .., f[n]: property i
\* has i bedrooms
SourcePropertyList(n, f) == [i \in 1..n |-> SourceProperty(f[i], JInt(i))]

-----------------------------------------------------------------------------
(* generate_csv_report, step by step *)

propertyVars == <<initial_id, source_property, comparisons_data, result>>

\* requests.get(url) outside any try, then the test of status_code != 200:
\* the response a failed fetch ends the request in
CsvFetchFailure(outcome, status, detail) ==
    IF outcome = "network_error"
    THEN Unhandled("ConnectionError")
    ELSE HTTPException(status, detail)

\* lines 118-121: GET ripos_valuations_user_reports
FetchUserReports ==
    /\ endpoint = "generate_csv_report"
    /\ pc = "start"
    /\ \/ /\ fetches' = Append(fetches, Fetch("user_reports", "ok"))
          /\ \E n \in 0..MaxReports :
                \E reports \in [1..n -> UserReportValues] : user_reports' = reports
          /\ pc' = "find_report"
          /\ UNCHANGED response
       \/ /\ \E outcome \in {"http_error", "network_error"}, status \in ErrorStatuses :
                /\ fetches' = Append(fetches, Fetch("user_reports", outcome))
                /\ response' = CsvFetchFailure(outcome, status,
                                               "Failed to fetch user reports.")
          /\ pc' = AfterFailedFetch("find_report")
          /\ UNCHANGED user_reports
    /\ UNCHANGED <<endpoint, user_email, report_id, property_ids, all_comparisons,
                   selected_comparisons_list, comparisons_by_initial_address,
                   source_properties, rows, propertyVars>>

\* lines 123-135: find the report and its property_ids.  user_reports is not
\* read after line 127 and leaves the state when the report is found.
FindUserReport ==
    /\ endpoint = "generate_csv_report"
    /\ pc = "find_report"
    /\ LET search == FindReport(user_reports, report_id, user_email)
           pids == GetDefault(search.report, "property_ids", JList(<<>>))
       IN  IF search.exc # ""
           THEN /\ response' = Unhandled(search.exc)
                /\ pc' = "error"
                /\ UNCHANGED <<user_reports, property_ids>>
           ELSE IF ~search.found
           THEN /\ response' = HTTPException(404, "User report not found.")
                /\ pc' = "error"
                /\ UNCHANGED <<user_reports, property_ids>>
           ELSE IF ~Truthy(pids)
           THEN /\ response' = HTTPException(404,
                        "No property IDs found in the user report.")
                /\ pc' = "error"
                /\ UNCHANGED <<user_reports, property_ids>>
           ELSE /\ property_ids' = pids
                /\ user_reports' = <<>>
                /\ pc' = "fetch_comparisons"
                /\ UNCHANGED response
    /\ UNCHANGED <<endpoint, user_email, report_id, fetches, all_comparisons,
                   selected_comparisons_list, comparisons_by_initial_address,
                   source_properties, rows, propertyVars>>

\* lines 137-141: GET valuations_property_comparisons
FetchAllComparisons ==
    /\ endpoint = "generate_csv_report"
    /\ pc = "fetch_comparisons"
    /\ \/ /\ fetches' = Append(fetches, Fetch("comparisons", "ok"))
          /\ \E n \in 0..MaxCsvComparisons :
                \E f \in [1..n -> CsvComparisonShapes] :
                    all_comparisons' = CsvComparisonList(n, f)
          /\ pc' = "select"
          /\ UNCHANGED response
       \/ /\ \E outcome \in {"http_error", "network_error"}, status \in ErrorStatuses :
                /\ fetches' = Append(fetches, Fetch("comparisons", outcome))
                /\ response' = CsvFetchFailure(outcome, status,
                                               "Failed to fetch property comparisons.")
          /\ pc' = AfterFailedFetch("select")
          /\ UNCHANGED all_comparisons
    /\ UNCHANGED <<endpoint, user_email, report_id, user_reports, property_ids,
                   selected_comparisons_list, comparisons_by_initial_address,
                   source_properties, rows, propertyVars>>

\* lines 143-157: index the comparisons by id, select those of property_ids
\* and group them by initial_address.  all_comparisons and property_ids are
\* not read after line 147 and leave the state.
SelectAndGroup ==
    /\ endpoint = "generate_csv_report"
    /\ pc = "select"
    /\ IF \E i \in 1..Len(all_comparisons) : ~HasKey(all_comparisons[i], "id")
       THEN /\ response' = Unhandled("KeyError")
            /\ pc' = "error"
            /\ UNCHANGED <<property_ids, all_comparisons, selected_comparisons_list,
                           comparisons_by_initial_address>>
       ELSE LET selected == SelectByIds(Payload(property_ids), all_comparisons)
            IN  IF selected = <<>>
                THEN /\ response' = HTTPException(404,
                            "No matching comparisons found for the given property IDs.")
                     /\ pc' = "error"
                     /\ UNCHANGED <<property_ids, all_comparisons,
                                    selected_comparisons_list,
                                    comparisons_by_initial_address>>
                ELSE /\ selected_comparisons_list' = selected
                     /\ comparisons_by_initial_address' = GroupLoop(selected, <<>>)
                     /\ property_ids' = Absent
                     /\ all_comparisons' = <<>>
                     /\ pc' = "fetch_properties"
                     /\ UNCHANGED response
    /\ UNCHANGED <<endpoint, user_email, report_id, fetches, user_reports,
                   source_properties, rows, propertyVars>>

\* lines 159-163: GET valuations_property
FetchSourceProperties ==
    /\ endpoint = "generate_csv_report"
    /\ pc = "fetch_properties"
    /\ \/ /\ fetches' = Append(fetches, Fetch("properties", "ok"))
          /\ \E n \in 0..MaxProperties :
                \E f \in [1..n -> SourceAddressValues] :
                    source_properties' = SourcePropertyList(n, f)
          /\ pc' = "build"
          /\ UNCHANGED response
       \/ /\ \E outcome \in {"http_error", "network_error"}, status \in ErrorStatuses :
                /\ fetches' = Append(fetches, Fetch("properties", outcome))
                /\ response' = CsvFetchFailure(outcome, status,
                                               "Failed to fetch properties.")
          /\ pc' = AfterFailedFetch("build")
          /\ UNCHANGED source_properties
    /\ UNCHANGED <<endpoint, user_email, report_id, user_reports, property_ids,
                   all_comparisons, selected_comparisons_list,
                   comparisons_by_initial_address, rows, propertyVars>>

\* lines 165-256: index the properties by address, write the header and one
\* row per group, and return the CSV
BuildCsv ==
    /\ endpoint = "generate_csv_report"
    /\ pc = "build"
    /\ IF \E i \in 1..Len(source_properties) : ~HasKey(source_properties[i], "address")
       THEN /\ response' = Unhandled("KeyError")
            /\ pc' = "error"
            /\ UNCHANGED rows
       ELSE LET max_comparisons == MaxGroupLen(comparisons_by_initial_address)
                headers == SourceHeaders \o ComparisonHeaders(1, max_comparisons)
            IN  /\ rows' = <<headers>> \o DataRows(comparisons_by_initial_address,
                                                  source_properties, max_comparisons)
                /\ response' = Returned("csv")
                /\ pc' = "done"
    /\ UNCHANGED <<endpoint, user_email, report_id, fetches, user_reports,
                   property_ids, all_comparisons, selected_comparisons_list,
                   comparisons_by_initial_address, source_properties, propertyVars>>

InitCsv ==
    /\ endpoint = "generate_csv_report"
    /\ pc = "start"
    /\ initial_id = 0
    /\ user_email = EmailA
    /\ report_id = 1
    /\ fetches = <<>>
    /\ source_property = NoProperty
    /\ comparisons_data = <<>>
    /\ result = NoResult
    /\ user_reports = <<>>
    /\ property_ids = Absent
    /\ all_comparisons = <<>>
    /\ selected_comparisons_list = <<>>
    /\ comparisons_by_initial_address = <<>>
    /\ source_properties = <<>>
    /\ rows = <<>>
    /\ response = NoResponse

NextCsv ==
    \/ FetchUserReports
    \/ FindUserReport
    \/ FetchAllComparisons
    \/ SelectAndGroup
    \/ FetchSourceProperties
    \/ BuildCsv

SpecCsv == InitCsv /\ [][NextCsv]_vars

\* any request to any endpoint
Init == InitProperty \/ InitCsv

Next == NextProperty \/ NextCsv

Spec == Init /\ [][Next]_vars

-----------------------------------------------------------------------------
(* Properties of get_property *)

\* get_property has built its result (generate_report then renders it)
PropertyResultBuilt ==
    endpoint \in PropertyEndpoints /\ pc \in {"render", "done"}

C1_Qualifies(c) ==
    /\ PyInt(Get(c, "initial_id")).exc = ""
    /\ PyInt(Get(c, "initial_id")).val = initial_id
    /\ c.Selected = JBool(TRUE)

C2_Unparseable(v) ==
    \/ Tag(v) \in {"null", "absent"}
    \/ /\ Tag(v) = "str"
       /\ \A i \in 1..Len(Payload(v)) : ~IsDigit(Payload(v)[i])

BothFetchesOk ==
    /\ Len(fetches) = 2
    /\ \A i \in 1..2 : fetches[i].outcome = "ok"

\* C2: once both fetches have succeeded and the filter has run, the request
\* has not failed, whatever unparseable initial_id the list holds, and no
\* record with an unparseable initial_id is in selected_comparisons.
C2_UnparseableSkipped ==
    (endpoint \in PropertyEndpoints /\ BothFetchesOk /\ pc # "filter") =>
        /\ pc \in {"render", "done"}
        /\ response.kind \notin {"HTTPException", "unhandled"}
        /\ \A i \in 1..Len(result.selected_comparisons) :
              ~C2_Unparseable(result.selected_comparisons[i].initial_id)

\* a list with a selected record without initial_id, a selected record with
\* a non-numeric initial_id, answered normally
C2_Witness ==
    /\ endpoint = "get_property"
    /\ pc = "done"
    /\ response.kind = "json"
    /\ Len(comparisons_data) = 2
    /\ comparisons_data[1].initial_id = Absent
    /\ comparisons_data[1].Selected = JBool(TRUE)
    /\ comparisons_data[2].initial_id = JStr(<<97>>)
    /\ comparisons_data[2].Selected = JBool(TRUE)

-----------------------------------------------------------------------------
(* Properties of the fetches of every endpoint *)

\* the order in which a handler fetches
FetchOrder ==
    IF endpoint \in PropertyEndpoints
    THEN <<"property", "comparisons">>
    ELSE <<"user_reports", "comparisons", "properties">>

\* C8: the fetches issued are a prefix of the handler's fixed order (one
\* after another, each collection at most once), only the last one may have
\* failed, and a failed fetch ends the request in an error with no result.
C8_SequentialFetches ==
    /\ Len(fetches) <= Len(FetchOrder)
    /\ \A i \in 1..Len(fetches) : fetches[i].coll = FetchOrder[i]
    /\ \A i \in 1..(Len(fetches) - 1) : fetches[i].outcome = "ok"
    /\ (fetches # <<>> /\ fetches[Len(fetches)].outcome # "ok") =>
          /\ pc = "error"
          /\ response.kind \in {"HTTPException", "unhandled"}
          /\ result = NoResult
          /\ rows = <<>>

\* the second fetch of the CSV export fails after the first succeeded
C8_Witness ==
    /\ endpoint = "generate_csv_report"
    /\ pc = "error"
    /\ Len(fetches) = 2
    /\ fetches[1] = Fetch("user_reports", "ok")
    /\ fetches[2] = Fetch("comparisons", "network_error")

\* C9: a fetch that failed at the network level ends the request in an
\* HTTPException of status 500, and that response is none of the responses
\* the same fetch gives for an upstream error status.
C9_NetworkFailureIsFetchFailed ==
    (fetches # <<>> /\ fetches[Len(fetches)].outcome = "network_error") =>
        /\ response.kind = "HTTPException"
        /\ response.status = 500
        /\ response.detail \notin
              {"Source property not found.", "Failed to fetch property comparisons.",
               "Failed to fetch user reports.", "Failed to fetch properties."}

-----------------------------------------------------------------------------
(* Properties of generate_csv_report *)

CsvDone == endpoint = "generate_csv_report" /\ pc = "done"

AllFetchesOk == \A i \in 1..Len(fetches) : fetches[i].outcome = "ok"

\* the reports matching the requested id and user
C6_Matches(report) ==
    report.id = JInt(report_id) /\ report.user_id = user_email

\* no report matches, or the first that matches has no property ids
C6_NoUsableReport ==
    \/ \A i \in 1..Len(user_reports) : ~C6_Matches(user_reports[i])
    \/ \E i \in 1..Len(user_reports) :
          /\ C6_Matches(user_reports[i])
          /\ \A j \in 1..(i - 1) : ~C6_Matches(user_reports[j])
          /\ user_reports[i].property_ids \in {Absent, JNull, JList(<<>>)}

\* C6: when no user report matches the requested id and user, or the
\* matching report has no property ids, the search for the report ends the
\* request in a 404 error (and so in no CSV).
C6_NoReportIs404 ==
    [][(endpoint = "generate_csv_report" /\ pc = "find_report" /\ C6_NoUsableReport) =>
          /\ pc' = "error"
          /\ response'.kind = "HTTPException"
          /\ response'.status = 404]_vars

\* C7: with every fetch successful, no shape of the fetched records ends
\* the request in an exception the handler does not turn into one of its
\* errors.
C7_NoUnhandledOnData ==
    AllFetchesOk => response.kind # "unhandled"

\* the addresses the selected comparisons are grouped under
GroupAddresses ==
    { selected_comparisons_list[i].initial_address :
        i \in 1..Len(selected_comparisons_list) } \ {Absent, JNull, EmptyStr}

\* the selected comparisons of an address, in the order of the selection
GroupOf(a) ==
    SelectSeq(selected_comparisons_list, LAMBDA c : c.initial_address = a)

\* the source-address cell of a data row
RowAddress(r) == rows[r][2]

DataRowNumbers == 2..Len(rows)

\* the largest group size of the export, 0 without any group
C3_MaxComparisons ==
    IF GroupAddresses = {} THEN 0
    ELSE CHOOSE m \in { Len(GroupOf(a)) : a \in GroupAddresses } :
            \A a \in GroupAddresses : Len(GroupOf(a)) <= m

\* C3: the header and every data row of an export are 6 + 7 * max_comparisons
\* cells wide, and the cells after a row's own comparisons are empty strings.
C3_ConstantWidth ==
    CsvDone =>
        /\ \A r \in 1..Len(rows) : Len(rows[r]) = 6 + 7 * C3_MaxComparisons
        /\ \A r \in DataRowNumbers :
              \A k \in (6 + 7 * Len(GroupOf(RowAddress(r))) + 1)..Len(rows[r]) :
                  rows[r][k] = EmptyStr

\* an export of two data rows, one of a group smaller than the largest
C3_Witness ==
    /\ CsvDone
    /\ Len(rows) = 3
    /\ \E r \in DataRowNumbers : Len(GroupOf(RowAddress(r))) < C3_MaxComparisons

\* some comparison cell of the row is not empty
C4_HasComparison(r) == \E k \in 7..Len(rows[r]) : rows[r][k] # EmptyStr

\* C4 as stated: as many data rows as there are source properties whose
\* address has a group, and no data row without a comparison.
C4_OneRowPerMatchedProperty ==
    CsvDone =>
        /\ Len(rows) - 1 =
              Cardinality({ i \in 1..Len(source_properties) :
                              source_properties[i].address \in GroupAddresses })
        /\ \A r \in DataRowNumbers : C4_HasComparison(r)

\* the last source property of an address
C4_LastWith(a) ==
    CHOOSE i \in 1..Len(source_properties) :
        /\ source_properties[i].address = a
        /\ \A j \in (i + 1)..Len(source_properties) : source_properties[j].address # a

\* C4, amended: exactly one data row for each address that has a group and
\* is the address of at least one source property, with the source columns
\* of the last source property of that address; no row for any other
\* address or property, and no data row without a comparison.
C4_OneRowPerMatchedAddress ==
    CsvDone =>
        /\ \A r, q \in DataRowNumbers : r # q => RowAddress(r) # RowAddress(q)
        /\ { RowAddress(r) : r \in DataRowNumbers } =
              { a \in GroupAddresses :
                  \E i \in 1..Len(source_properties) : source_properties[i].address = a }
        /\ \A r \in DataRowNumbers :
              /\ rows[r][3] = source_properties[C4_LastWith(RowAddress(r))].bedrooms
              /\ C4_HasComparison(r)

\* two source properties share the address of a group, another group has no
\* source property: one data row
C4_Witness ==
    /\ CsvDone
    /\ Len(rows) = 2
    /\ Len(source_properties) = 2
    /\ source_properties[1].address = AddrA
    /\ source_properties[2].address = AddrA
    /\ GroupAddresses = {AddrA, AddrB}

\* the records of a group with a sold_amount that is present and truthy
C5_Usable(group) ==
    { i \in 1..Len(group) : group[i].sold_amount \notin {Absent, JNull, JInt(0)} }

RECURSIVE C5_SumOver(_, _)
C5_SumOver(S, group) ==
    IF S = {} THEN 0
    ELSE LET i == CHOOSE x \in S : TRUE
         IN  Payload(group[i].sold_amount)[1] + C5_SumOver(S \ {i}, group)

\* C5: the first cell of a data row is the mean of the usable sold amounts
\* of the row's group (avg = n/d with d > 0 and n * count = sum * d), and
\* the integer 0 when the group has none.
C5_AverageColumn ==
    CsvDone =>
        \A r \in DataRowNumbers :
            LET group == GroupOf(RowAddress(r))
                usable == C5_Usable(group)
                avg == rows[r][1]
            IN  IF usable = {} THEN avg = JInt(0)
                ELSE /\ Tag(avg) = "frac"
                     /\ Payload(avg)[2] > 0
                     /\ Payload(avg)[1] * Cardinality(usable)
                            = C5_SumOver(usable, group) * Payload(avg)[2]

\* a row whose group has records with and records without a usable
\* sold_amount
C5_Witness ==
    /\ CsvDone
    /\ \E r \in DataRowNumbers :
          LET group == GroupOf(RowAddress(r))
          IN  /\ C5_Usable(group) # {}
              /\ C5_Usable(group) # 1..Len(group)
              /\ Tag(rows[r][1]) = "frac"

\* where an address is first seen in the selection
C10_FirstIndex(a) ==
    CHOOSE i \in 1..Len(selected_comparisons_list) :
        /\ selected_comparisons_list[i].initial_address = a
        /\ \A j \in 1..(i - 1) : selected_comparisons_list[j].initial_address # a

\* C10: the groups are keyed by the non-empty initial_address values of the
\* selected comparisons, in first-seen order, each holding its records in
\* the order of the selection; the data rows follow the first-seen order of
\* their addresses and each row's blocks follow its group.
C10_GroupOrder ==
    /\ (endpoint = "generate_csv_report" /\ pc \in {"fetch_properties", "build", "done"}) =>
          LET groups == comparisons_by_initial_address
          IN  /\ { groups[i].key : i \in 1..Len(groups) } = GroupAddresses
              /\ \A i, j \in 1..Len(groups) :
                    i < j => C10_FirstIndex(groups[i].key) < C10_FirstIndex(groups[j].key)
              /\ \A i \in 1..Len(groups) : groups[i].items = GroupOf(groups[i].key)
    /\ CsvDone =>
          /\ \A r, q \in DataRowNumbers :
                r < q => C10_FirstIndex(RowAddress(r)) < C10_FirstIndex(RowAddress(q))
          /\ \A r \in DataRowNumbers :
                LET group == GroupOf(RowAddress(r))
                IN  \A j \in 1..Len(group) :
                        SubSeq(rows[r], 7 * j, 7 * j + 6) = ComparisonBlock(group[j])

\* the selection alternates between two addresses, and the source
\* properties come in the other order: two data rows
C10_Witness ==
    /\ CsvDone
    /\ Len(rows) = 3
    /\ Len(selected_comparisons_list) = 3
    /\ selected_comparisons_list[1].initial_address = selected_comparisons_list[3].initial_address
    /\ selected_comparisons_list[1].initial_address # selected_comparisons_list[2].initial_address
    /\ source_properties[1].address = selected_comparisons_list[2].initial_address

====
